---- MODULE Spec2Model ----
(***************************************************************************)
(* Model of extensions/versions-latest-prerelease/vlp.js: an Antora        *)
(* extension that resolves the "latest" and "dev" pointers of every        *)
(* component, rewrites pointer-style xrefs, and after publication creates   *)
(* the pointer symlinks and adjusts the root index.html.                    *)
(*                                                                         *)
(* JavaScript strings are TLA+ strings; TLC evaluates Len, SubSeq and \o   *)
(* on them, so every regular expression and every path operation is        *)
(* modelled character by character.  JavaScript offsets are 0-based, the    *)
(* positions used here are 1-based; lastIndex keeps its JavaScript value.   *)
(***************************************************************************)
EXTENDS Integers, Sequences, FiniteSets, TLC

VARIABLES
  pc,                   \* position of the host / of the running handler
  outputDir,            \* let outputDir (None while null)
  latestVersionsList,   \* const latestVersionsList
  startPageVersion,     \* let startPageVersion (None while null)
  startPageComponent,   \* let startPageComponent (None while null)
  catalogIn,            \* the contentCatalog as handed to contentClassified
  files,                \* the asciidoc files of the catalog (file.contents mutable)
  fs,                   \* the disk: absolute path -> node
  fsPub,                \* the disk as the sitePublished handler found it
  linkIdx,              \* sitePublished: position in the two nested forEach loops
  indexContent,         \* sitePublished: let indexContent
  calls,                \* createSymlink calls made so far (SpecLink)
  registrations         \* how often the host has called register in this process

vars == <<pc, outputDir, latestVersionsList, startPageVersion, startPageComponent,
          catalogIn, files, fs, fsPub, linkIdx, indexContent, calls, registrations>>

-----------------------------------------------------------------------------
(* Optional values: null / undefined is None, a value v is Some(v).        *)

None == <<>>

Some(v) == <<v>>

IsSome(m) == m # <<>>

Val(m) == m[1]

-----------------------------------------------------------------------------
(* Bounds of the model.                                                    *)

MaxCalls == 2       \* createSymlink calls in a row (SpecLink)

MaxVersions == 3    \* version entries of a component (SpecClassified)

MaxRefs == 3        \* cross-references in one document (SpecClassified)

LoopFuel == 12      \* iterations of the while loop of modifyXrefsInText unrolled

MaxRegistrations == 2   \* calls of register in one process (SpecRerun)

LinkFuel == 4       \* symbolic links followed by one stat before ELOOP

-----------------------------------------------------------------------------
(* String helpers, after the methods of String.prototype.                  *)

\* the character at position i, "" outside the string
Char(s, i) == IF 1 <= i /\ i <= Len(s) THEN SubSeq(s, i, i) ELSE ""

Min(S) == CHOOSE x \in S : \A y \in S : x <= y

StartsAt(s, i, p) == i >= 1 /\ i + Len(p) - 1 <= Len(s) /\ SubSeq(s, i, i + Len(p) - 1) = p

StartsWith(s, p) == StartsAt(s, 1, p)

\* first position >= from where p occurs in s, 0 when there is none
IndexOf(s, p, from) ==
  LET hits == {i \in from..(Len(s) - Len(p) + 1) : StartsAt(s, i, p)}
  IN IF hits = {} THEN 0 ELSE Min(hits)

Includes(s, p) == IndexOf(s, p, 1) # 0

Digits == {"0", "1", "2", "3", "4", "5", "6", "7", "8", "9"}

Lower == {"a", "b", "c", "d", "e", "f", "g", "h", "i", "j", "k", "l", "m",
          "n", "o", "p", "q", "r", "s", "t", "u", "v", "w", "x", "y", "z"}

Upper == {"A", "B", "C", "D", "E", "F", "G", "H", "I", "J", "K", "L", "M",
          "N", "O", "P", "Q", "R", "S", "T", "U", "V", "W", "X", "Y", "Z"}

\* the class [\w.-] of the two startPage patterns
IsNameChar(c) == c \in Digits \cup Lower \cup Upper \cup {"_", ".", "-"}

LATEST_SYMLINK == "latest"

DEV_SYMLINK == "dev"

\* a descriptor name that leads to the entry page of the site
LATEST_DEV_FILE_IsIndex == "../index.html"

LATEST_DEV_FILE == "latest_dev.txt"

-----------------------------------------------------------------------------
(* node:path, POSIX flavour.  The process works in Cwd.                    *)

Cwd == "/w"

isAbsolute(p) == Len(p) > 0 /\ Char(p, 1) = "/"

RECURSIVE SplitFrom(_, _, _)
\* the segments of s between slashes, from position i, cur being the open one
SplitFrom(s, i, cur) ==
  IF i > Len(s) THEN <<cur>>
  ELSE IF Char(s, i) = "/" THEN <<cur>> \o SplitFrom(s, i + 1, "")
  ELSE SplitFrom(s, i + 1, cur \o Char(s, i))

Split(s) == SplitFrom(s, 1, "")

RECURSIVE NormSegs(_, _, _)
\* normalizeString: drop "" and ".", let ".." take the segment before it;
\* above the start ".." is kept for a relative path, dropped for an absolute
NormSegs(segs, acc, allowAbove) ==
  IF segs = <<>> THEN acc
  ELSE LET s == Head(segs) IN
       IF s = "" \/ s = "." THEN NormSegs(Tail(segs), acc, allowAbove)
       ELSE IF s = ".." THEN
              IF acc # <<>> /\ acc[Len(acc)] # ".."
                THEN NormSegs(Tail(segs), SubSeq(acc, 1, Len(acc) - 1), allowAbove)
              ELSE IF allowAbove THEN NormSegs(Tail(segs), Append(acc, ".."), allowAbove)
              ELSE NormSegs(Tail(segs), acc, allowAbove)
       ELSE NormSegs(Tail(segs), Append(acc, s), allowAbove)

RECURSIVE JoinSegs(_)
JoinSegs(segs) ==
  IF segs = <<>> THEN ""
  ELSE IF Len(segs) = 1 THEN segs[1]
  ELSE segs[1] \o "/" \o JoinSegs(Tail(segs))

\* path.normalize
normalize(p) ==
  IF p = "" THEN "."
  ELSE LET abs  == isAbsolute(p)
           body == JoinSegs(NormSegs(Split(p), <<>>, ~abs))
           trail == Char(p, Len(p)) = "/"
       IN IF abs THEN "/" \o body \o (IF trail /\ body # "" THEN "/" ELSE "")
          ELSE IF body = "" THEN (IF trail THEN "./" ELSE ".")
          ELSE body \o (IF trail THEN "/" ELSE "")

\* path.join(a, b)
join(a, b) ==
  IF a = "" /\ b = "" THEN "."
  ELSE IF a = "" THEN normalize(b)
  ELSE IF b = "" THEN normalize(a)
  ELSE normalize(a \o "/" \o b)

\* path.resolve(p): an absolute path with no trailing slash
resolve1(p) ==
  LET full == IF isAbsolute(p) THEN p ELSE Cwd \o "/" \o p
  IN "/" \o JoinSegs(NormSegs(Split(full), <<>>, FALSE))

\* path.resolve(a, b)
resolve(a, b) ==
  IF isAbsolute(b) THEN resolve1(b)
  ELSE IF b = "" THEN resolve1(a)
  ELSE IF a = "" THEN resolve1(b)
  ELSE resolve1(a \o "/" \o b)

RECURSIVE CommonLen(_, _)
CommonLen(a, b) ==
  IF a = <<>> \/ b = <<>> \/ Head(a) # Head(b) THEN 0
  ELSE 1 + CommonLen(Tail(a), Tail(b))

\* path.relative(from, to)
relative(from, to) ==
  LET f == NormSegs(Split(resolve1(from)), <<>>, FALSE)
      t == NormSegs(Split(resolve1(to)), <<>>, FALSE)
      k == CommonLen(f, t)
      ups == [i \in 1..(Len(f) - k) |-> ".."]
  IN JoinSegs(ups \o SubSeq(t, k + 1, Len(t)))

\* path.dirname of an absolute, normalised path
dirname(p) ==
  LET segs == NormSegs(Split(p), <<>>, FALSE)
  IN "/" \o JoinSegs(SubSeq(segs, 1, Len(segs) - 1))

-----------------------------------------------------------------------------
(* node:fs over a disk fs: absolute path -> [kind, data].  kind is "dir",  *)
(* "file" (data: its text) or "link" (data: the target string as written). *)
(* "/" always is a directory.  Only the last component of a path is        *)
(* followed when it is a symbolic link.                                    *)

Dir == [kind |-> "dir", data |-> ""]

File(text) == [kind |-> "file", data |-> text]

Link(target) == [kind |-> "link", data |-> target]

Abs(p) == resolve1(p)

\* lstat: the node at p itself, None when there is none
Lstat(d, p) ==
  LET a == Abs(p)
  IN IF a = "/" THEN Some(Dir) ELSE IF a \in DOMAIN d THEN Some(d[a]) ELSE None

RECURSIVE StatFuel(_, _, _)
\* stat: the node p leads to, following symbolic links; None for ENOENT / ELOOP
StatFuel(d, p, fuel) ==
  LET a == Abs(p)
      n == Lstat(d, a)
  IN IF ~IsSome(n) THEN None
     ELSE IF Val(n).kind # "link" THEN n
     ELSE IF fuel = 0 THEN None
     ELSE StatFuel(d, resolve(dirname(a), Val(n).data), fuel - 1)

Stat(d, p) == StatFuel(d, p, LinkFuel)

existsSync(d, p) == IsSome(Stat(d, p))

IsDirectory(d, p) == IsSome(Stat(d, p)) /\ Val(Stat(d, p)).kind = "dir"

Put(d, p, node) == [x \in DOMAIN d \cup {Abs(p)} |-> IF x = Abs(p) THEN node ELSE d[x]]

Remove(d, p) == [x \in DOMAIN d \ {Abs(p)} |-> d[x]]

\* the result of a call that may throw: the disk after it, and whether it threw
Ok(d) == [fs |-> d, threw |-> FALSE]

Threw(d) == [fs |-> d, threw |-> TRUE]

\* fs.unlinkSync(p): EISDIR/EPERM on a directory, ENOENT on nothing
unlinkSync(d, p) ==
  LET n == Lstat(d, p)
  IN IF ~IsSome(n) \/ Val(n).kind = "dir" THEN Threw(d) ELSE Ok(Remove(d, p))

\* fs.symlinkSync(target, p): EEXIST when anything is at p, ENOENT without parent
symlinkSync(d, target, p) ==
  IF IsSome(Lstat(d, p)) \/ ~IsDirectory(d, dirname(Abs(p))) THEN Threw(d)
  ELSE Ok(Put(d, p, Link(target)))

\* createSymlink with whatever lies at the link path removed first, a
\* directory and all below it included
createSymlinkClobber(d, targetPath, symlinkPath) ==
  symlinkSync([x \in {y \in DOMAIN d : y # Abs(symlinkPath)
                                       /\ ~StartsWith(y, Abs(symlinkPath) \o "/")} |-> d[x]],
              targetPath, symlinkPath)

\* Create symlink, avoiding directories.
createSymlink(d, targetPath, symlinkPath) ==
  IF existsSync(d, symlinkPath)
    THEN IF Val(Lstat(d, symlinkPath)).kind # "dir"
           THEN LET r == unlinkSync(d, symlinkPath)
                IN IF r.threw THEN r ELSE symlinkSync(r.fs, targetPath, symlinkPath)
         ELSE Ok(d)
  ELSE symlinkSync(d, targetPath, symlinkPath)

\* isSafePath with the check left out
isSafePathAlways(base, target) == TRUE

\* Ensure symlink targets are safe.
isSafePath(base, target) ==
  LET rel == relative(base, target)
  IN ~StartsWith(rel, "..") /\ ~isAbsolute(rel)

-----------------------------------------------------------------------------
(* More of node:fs: what writeLatestDevFile and the index.html step use.   *)

RECURSIVE Prefixes(_)
\* the directories mkdirSync(dir, {recursive: true}) walks through, top first
Prefixes(a) == IF a = "/" THEN <<>> ELSE Append(Prefixes(dirname(a)), a)

\* fs.mkdirSync(dir, { recursive: true }): EEXIST / ENOTDIR when a component
\* of the path is there and is no directory
mkdirSync(d, dir) ==
  LET pre == Prefixes(Abs(dir))
      blocked == \E i \in 1..Len(pre) : IsSome(Lstat(d, pre[i])) /\ ~IsDirectory(d, pre[i])
  IN IF blocked THEN Threw(d)
     ELSE Ok([x \in DOMAIN d \cup {pre[i] : i \in 1..Len(pre)} |->
                 IF x \in DOMAIN d THEN d[x] ELSE Dir])

RECURSIVE FinalPath(_, _, _)
\* where an open() of p for writing lands: symbolic links at p are followed
FinalPath(d, p, fuel) ==
  LET n == Lstat(d, p)
  IN IF IsSome(n) /\ Val(n).kind = "link" /\ fuel > 0
       THEN FinalPath(d, resolve(dirname(Abs(p)), Val(n).data), fuel - 1)
     ELSE Abs(p)

\* The bytes of a file and of a Buffer are written as the text they encode.
\* INVALID_BYTE stands for a byte that is part of no UTF-8 sequence (0xFF);
\* in a string the same character stands for a lone surrogate, which has no
\* UTF-8 sequence either.  REPLACEMENT stands for U+FFFD in a string and for
\* its three bytes EF BF BD in a file.
INVALID_BYTE == "\t"

REPLACEMENT == "?"

RECURSIVE Utf8DecodeFrom(_, _)
Utf8DecodeFrom(bytes, i) ==
  IF i > Len(bytes) THEN ""
  ELSE (IF Char(bytes, i) = INVALID_BYTE THEN REPLACEMENT ELSE Char(bytes, i))
         \o Utf8DecodeFrom(bytes, i + 1)

\* buffer.toString("utf8"): what is no UTF-8 sequence becomes U+FFFD
Utf8Decode(bytes) == Utf8DecodeFrom(bytes, 1)

RECURSIVE Utf8EncodeFrom(_, _)
Utf8EncodeFrom(text, i) ==
  IF i > Len(text) THEN ""
  ELSE (IF Char(text, i) = INVALID_BYTE THEN REPLACEMENT ELSE Char(text, i))
         \o Utf8EncodeFrom(text, i + 1)

\* Buffer.from(text, "utf8"): the bytes of each character of the string, and
\* those of U+FFFD for a lone surrogate
Utf8Encode(text) == Utf8EncodeFrom(text, 1)

\* the bytes p receives; fault: the write fails (EACCES, ENOSPC, EIO)
WriteBytes(d, p, bytes, fault) ==
  LET q == FinalPath(d, p, LinkFuel)
      n == Lstat(d, q)
  IN IF fault \/ (IsSome(n) /\ Val(n).kind # "file") \/ ~IsDirectory(d, dirname(q))
       THEN Threw(d)
     ELSE Ok(Put(d, q, File(bytes)))

\* the bytes of p, None when the read fails
ReadBytes(d, p, fault) ==
  LET n == Stat(d, p)
  IN IF fault \/ ~IsSome(n) \/ Val(n).kind # "file" THEN None ELSE Some(Val(n).data)

\* fs.writeFileSync(p, text, "utf8")
writeFileSync(d, p, text, fault) == WriteBytes(d, p, Utf8Encode(text), fault)

\* fs.readFileSync(p, "utf8"): the text, None when the call throws
readFileSync(d, p, fault) ==
  LET bytes == ReadBytes(d, p, fault)
  IN IF IsSome(bytes) THEN Some(Utf8Decode(Val(bytes))) ELSE None

\* fs.copyFileSync(src, dest): the bytes as they are
copyFileSync(d, src, dest, fault) ==
  LET bytes == ReadBytes(d, src, fault)
  IN IF ~IsSome(bytes) THEN Threw(d) ELSE WriteBytes(d, dest, Val(bytes), FALSE)

\* Write latest_dev.txt for a component.  The try/catch swallows every error.
writeLatestDevFile(d, dir, content, fault) ==
  LET m == mkdirSync(d, dir)
  IN IF m.threw THEN d
     ELSE writeFileSync(m.fs, join(dir, LATEST_DEV_FILE), content, fault).fs

-----------------------------------------------------------------------------
(* semver.coerce and semver.rcompare, as the handler uses them.            *)

RECURSIVE DigitsEnd(_, _)
\* the last position of the run of digits that starts at i (i - 1 when none)
DigitsEnd(s, i) ==
  IF i <= Len(s) /\ Char(s, i) \in Digits THEN DigitsEnd(s, i + 1) ELSE i - 1

DigitVal(c) ==
  CASE c = "0" -> 0 [] c = "1" -> 1 [] c = "2" -> 2 [] c = "3" -> 3 [] c = "4" -> 4
    [] c = "5" -> 5 [] c = "6" -> 6 [] c = "7" -> 7 [] c = "8" -> 8 [] c = "9" -> 9

RECURSIVE ToNumber(_)
ToNumber(s) == IF s = "" THEN 0 ELSE 10 * ToNumber(SubSeq(s, 1, Len(s) - 1)) + DigitVal(Char(s, Len(s)))

\* a numeric identifier of a strict version: 0|[1-9]\d*
IsNumericId(s) == Len(s) = 1 \/ Char(s, 1) # "0"

\* semver.coerce(version): the first run of digits is the major, a following
\* ".digits" the minor, a second one the patch; the rest of the label is
\* dropped.  None when the label holds no digit or a part has a leading zero.
coerce(version) ==
  LET firsts == {i \in 1..Len(version) : Char(version, i) \in Digits}
  IN IF firsts = {} THEN None
     ELSE LET i   == Min(firsts)
              e1  == DigitsEnd(version, i)
              has2 == Char(version, e1 + 1) = "." /\ DigitsEnd(version, e1 + 2) >= e1 + 2
              e2  == IF has2 THEN DigitsEnd(version, e1 + 2) ELSE e1
              has3 == has2 /\ Char(version, e2 + 1) = "." /\ DigitsEnd(version, e2 + 2) >= e2 + 2
              e3  == IF has3 THEN DigitsEnd(version, e2 + 2) ELSE e2
              major == SubSeq(version, i, e1)
              minor == IF has2 THEN SubSeq(version, e1 + 2, e2) ELSE "0"
              patch == IF has3 THEN SubSeq(version, e2 + 2, e3) ELSE "0"
          IN IF IsNumericId(major) /\ IsNumericId(minor) /\ IsNumericId(patch)
               THEN Some(<<ToNumber(major), ToNumber(minor), ToNumber(patch)>>)
             ELSE None

\* semver.compare(a, b) of two coerced versions: -1, 0 or 1
compare(a, b) ==
  IF a[1] # b[1] THEN (IF a[1] < b[1] THEN -1 ELSE 1)
  ELSE IF a[2] # b[2] THEN (IF a[2] < b[2] THEN -1 ELSE 1)
  ELSE IF a[3] # b[3] THEN (IF a[3] < b[3] THEN -1 ELSE 1)
  ELSE 0

rcompare(a, b) == compare(b, a)

\* the comparator with its arguments the other way round: oldest first
SortCmpAscending(a, b) == compare(a.semver, b.semver)

\* the comparator handed to parsedVersions.sort
SortCmp(a, b) == rcompare(a.semver, b.semver)

RECURSIVE InsertSorted(_, _)
\* x put behind every element that does not sort after it (the sort is stable)
InsertSorted(sorted, x) ==
  IF sorted = <<>> THEN <<x>>
  ELSE IF SortCmp(Head(sorted), x) <= 0 THEN <<Head(sorted)>> \o InsertSorted(Tail(sorted), x)
  ELSE <<x>> \o sorted

RECURSIVE SortVersions(_)
\* Array.prototype.sort with SortCmp
SortVersions(vs) ==
  IF vs = <<>> THEN <<>> ELSE InsertSorted(SortVersions(SubSeq(vs, 1, Len(vs) - 1)), vs[Len(vs)])

\* a filter that lets every entry through, those without a version as 0.0.0
FilterParsedKeepsAll(mapped) ==
  [i \in 1..Len(mapped) |->
     [mapped[i] EXCEPT !.semver = IF IsSome(@) THEN Val(@) ELSE <<0, 0, 0>>]]

RECURSIVE FilterParsed(_)
\* .filter((v) => v.semver): the entries coerce gave a version for, in order
FilterParsed(mapped) ==
  IF mapped = <<>> THEN <<>>
  ELSE IF IsSome(Head(mapped).semver)
    THEN <<[Head(mapped) EXCEPT !.semver = Val(Head(mapped).semver)]>> \o FilterParsed(Tail(mapped))
  ELSE FilterParsed(Tail(mapped))

\* component.versions.map(...).filter((v) => v.semver)
ParsedVersions(versions) ==
  FilterParsed([i \in 1..Len(versions) |->
                  [version |-> versions[i].version,
                   semver |-> coerce(versions[i].version),
                   prerelease |-> versions[i].prerelease]])

\* Array.prototype.find over positions: the element at the least position of
\* hits, None (undefined) when hits is empty
FindAt(seq, hits) == IF hits = {} THEN None ELSE Some(seq[Min(hits)])

\* parsedVersions.find((v) => v.prerelease === undefined)
FindStable(parsedVersions) ==
  FindAt(parsedVersions,
         {i \in 1..Len(parsedVersions) : parsedVersions[i].prerelease = "undefined"})

\* parsedVersions.find((v) => v.prerelease !== undefined)
FindPrerelease(parsedVersions) ==
  FindAt(parsedVersions,
         {i \in 1..Len(parsedVersions) : parsedVersions[i].prerelease # "undefined"})

\* the entry of latestVersionsList the component loop pushes for one component
ResolveComponent(component) ==
  LET parsedVersions == SortVersions(ParsedVersions(component.versions))
  IN [componentName |-> component.name,
      latestStableObj |-> FindStable(parsedVersions),
      latestPrereleaseObj |-> FindPrerelease(parsedVersions)]

\* the text without its dev line
FileContentStableOnly(entry) ==
  entry.componentName \o "\n"
    \o (IF IsSome(entry.latestStableObj)
          THEN "latest: " \o Val(entry.latestStableObj).version \o "\n" ELSE "")

\* the text of latest_dev.txt for one entry
FileContent(entry) ==
  entry.componentName \o "\n"
    \o (IF IsSome(entry.latestStableObj)
          THEN "latest: " \o Val(entry.latestStableObj).version \o "\n" ELSE "")
    \o (IF IsSome(entry.latestPrereleaseObj)
          THEN "dev: " \o Val(entry.latestPrereleaseObj).version \o "\n" ELSE "")

-----------------------------------------------------------------------------
(* modifyXrefsInText: the global regular expression                        *)
(*   xref:(latest|dev)@([^:]+):([^[]+)                                     *)
(* and the loop that execs it and replaces.                                *)

\* the match of the expression that starts at position i, None when none does
XrefMatchAt(text, i) ==
  IF ~StartsAt(text, i, "xref:") THEN None
  ELSE LET versionType == IF StartsAt(text, i + 5, LATEST_SYMLINK) THEN LATEST_SYMLINK
                          ELSE IF StartsAt(text, i + 5, DEV_SYMLINK) THEN DEV_SYMLINK
                          ELSE ""
           at    == i + 5 + Len(versionType)
           colon == IndexOf(text, ":", at + 1)
           open  == IndexOf(text, "[", colon + 1)
           last  == IF open = 0 THEN Len(text) ELSE open - 1
       IN IF versionType = "" \/ Char(text, at) # "@" THEN None
          ELSE IF colon = 0 \/ colon = at + 1 THEN None       \* ([^:]+) then ":"
          ELSE IF last < colon + 1 THEN None                  \* ([^[]+)
          ELSE Some([index |-> i - 1,
                     lastIndex |-> last,
                     full |-> SubSeq(text, i, last),
                     versionType |-> versionType,
                     targetComponent |-> SubSeq(text, at + 1, colon - 1),
                     targetFile |-> SubSeq(text, colon + 1, last)])

\* regex.exec(text) with regex.lastIndex = lastIndex: the leftmost match that
\* starts at or after lastIndex, None (null) when there is none
XrefExec(text, lastIndex) ==
  LET starts == {i \in (lastIndex + 1)..Len(text) : IsSome(XrefMatchAt(text, i))}
  IN IF starts = {} THEN None ELSE XrefMatchAt(text, Min(starts))

RECURSIVE Expand(_, _, _, _)
\* GetSubstitution for a string pattern: $$, $&, $` and $' in the replacement
Expand(repl, matched, before, after) ==
  IF repl = "" THEN ""
  ELSE LET two == SubSeq(repl, 1, IF Len(repl) >= 2 THEN 2 ELSE 1)
           rest2 == SubSeq(repl, 3, Len(repl))
       IN IF two = "$$" THEN "$" \o Expand(rest2, matched, before, after)
          ELSE IF two = "$&" THEN matched \o Expand(rest2, matched, before, after)
          ELSE IF two = "$`" THEN before \o Expand(rest2, matched, before, after)
          ELSE IF two = "$'" THEN after \o Expand(rest2, matched, before, after)
          ELSE Char(repl, 1) \o Expand(SubSeq(repl, 2, Len(repl)), matched, before, after)

\* String.prototype.replace(pattern, replacement) with a string pattern: the
\* first occurrence of the pattern, wherever it is
Replace(text, pattern, replacement) ==
  LET i == IndexOf(text, pattern, 1)
  IN IF i = 0 THEN text
     ELSE LET before == SubSeq(text, 1, i - 1)
              after  == SubSeq(text, i + Len(pattern), Len(text))
          IN before \o Expand(replacement, pattern, before, after) \o after

\* latestVersionsList.find((e) => e.componentName === targetComponent)
CompEntry(list, targetComponent) ==
  FindAt(list, {i \in 1..Len(list) : list[i].componentName = targetComponent})

\* let actualVersion: the version label the pointer resolves to, None for null
ActualVersion(list, versionType, targetComponent) ==
  LET compEntry == CompEntry(list, targetComponent)
  IN IF ~IsSome(compEntry) THEN None
     ELSE IF versionType = LATEST_SYMLINK /\ IsSome(Val(compEntry).latestStableObj)
       THEN Some(Val(Val(compEntry).latestStableObj).version)
     ELSE IF versionType = DEV_SYMLINK /\ IsSome(Val(compEntry).latestPrereleaseObj)
       THEN Some(Val(Val(compEntry).latestPrereleaseObj).version)
     ELSE None

\* where the next exec starts, given the match just handled
NextLastIndex(match) == match.lastIndex

RECURSIVE XrefLoop(_, _, _, _)
\* the while loop: newFileText as it stands and the match exec returned last
XrefLoop(newFileText, match, list, fuel) ==
  IF ~IsSome(match) \/ fuel = 0 THEN newFileText
  ELSE LET m == Val(match)
           actualVersion == ActualVersion(list, m.versionType, m.targetComponent)
           newXref == "xref:" \o Val(actualVersion) \o "@" \o m.targetComponent
                        \o ":" \o m.targetFile
           text2 == IF IsSome(actualVersion) /\ Val(actualVersion) # ""
                      THEN Replace(newFileText, m.full, newXref)
                    ELSE newFileText
       IN XrefLoop(text2, XrefExec(text2, NextLastIndex(m)), list, fuel - 1)

\* Rewrite xrefs to be latest/dev versions.
modifyXrefsInText(fileText, list) ==
  XrefLoop(fileText, XrefExec(fileText, 0), list, LoopFuel)

-----------------------------------------------------------------------------
(* The handlers of register().                                             *)

\* startPage.match(/^([\w.-]+)@/): the version before "@"
VersionMatch(startPage) ==
  LET bad == {i \in 1..Len(startPage) : ~IsNameChar(Char(startPage, i))}
      n   == IF bad = {} THEN Len(startPage) ELSE Min(bad) - 1
  IN IF n >= 1 /\ Char(startPage, n + 1) = "@" THEN Some(SubSeq(startPage, 1, n)) ELSE None

\* startPage.match(/^[\w.-]+@([\w.-]+):/): the component between "@" and ":"
CompMatch(startPage) ==
  LET v == VersionMatch(startPage)
  IN IF ~IsSome(v) THEN None
     ELSE LET rest == SubSeq(startPage, Len(Val(v)) + 2, Len(startPage))
              bad  == {i \in 1..Len(rest) : ~IsNameChar(Char(rest, i))}
              n    == IF bad = {} THEN Len(rest) ELSE Min(bad) - 1
          IN IF n >= 1 /\ Char(rest, n + 1) = ":" THEN Some(SubSeq(rest, 1, n)) ELSE None

\* this.once("playbookBuilt", ...)
PlaybookBuilt(playbook) ==
  /\ pc = "registered"
  /\ pc' = "configured"
  /\ outputDir' = IF IsSome(playbook.outputDir) /\ Val(playbook.outputDir) # ""
                    THEN playbook.outputDir ELSE Some("build/site")
  /\ IF IsSome(playbook.startPage) /\ Val(playbook.startPage) # ""
       THEN /\ startPageVersion' = IF IsSome(VersionMatch(Val(playbook.startPage)))
                                     THEN VersionMatch(Val(playbook.startPage))
                                   ELSE startPageVersion
            /\ startPageComponent' = IF IsSome(CompMatch(Val(playbook.startPage)))
                                       THEN CompMatch(Val(playbook.startPage))
                                     ELSE startPageComponent
     ELSE UNCHANGED <<startPageVersion, startPageComponent>>
  /\ UNCHANGED <<latestVersionsList, catalogIn, files, fs, fsPub, linkIdx, indexContent, calls, registrations>>

\* module.exports.register called again in the same process, the run before
\* being over: three new listeners; the module is loaded once, its state stays
Register ==
  /\ pc \in {"published", "thrown"}
  /\ registrations < MaxRegistrations
  /\ pc' = "registered"
  /\ registrations' = registrations + 1
  /\ UNCHANGED <<outputDir, latestVersionsList, startPageVersion, startPageComponent,
                 catalogIn, files, fs, fsPub, linkIdx, indexContent, calls>>

\* a test no component passes
IsSharedComponentNever(component) == FALSE

\* component.name === "shared": the component loop returns at once
IsSharedComponent(component) == component.name = "shared"

\* the body of the component loop for one component: the list and the disk
\* after it.  fault: its latest_dev.txt cannot be written
ComponentBody(component, acc, fault) ==
  IF IsSharedComponent(component) THEN acc
  ELSE [list |-> Append(acc.list, ResolveComponent(component)),
        fs |-> writeLatestDevFile(acc.fs, resolve(Val(outputDir), component.name),
                                  FileContent(ResolveComponent(component)), fault)]

RECURSIVE ComponentLoop(_, _, _)
\* contentCatalog.getComponents().forEach(...); failing: the components whose
\* latest_dev.txt cannot be written
ComponentLoop(components, acc, failing) ==
  IF components = <<>> THEN acc
  ELSE ComponentLoop(Tail(components),
                     ComponentBody(Head(components), acc, Head(components).name \in failing),
                     failing)

\* file.component?.name || file.src?.component
CompNameOf(file) ==
  IF IsSome(file.component) /\ Val(file.component) # "" THEN file.component
  ELSE file.srcComponent

\* the skip test without the shared component
SkipFileNotShared(file) ==
  \/ ~IsSome(file.path) \/ Val(file.path) = ""
  \/ file.basename = Some("nav.adoc")

\* !filename || basename === "nav.adoc" || compName === "shared"
SkipFile(file) ==
  \/ ~IsSome(file.path) \/ Val(file.path) = ""
  \/ file.basename = Some("nav.adoc")
  \/ CompNameOf(file) = Some("shared")

\* the body of the file loop for one file
ProcessFile(file, list) ==
  IF SkipFile(file) THEN file
  ELSE IF IsSome(file.contents) /\ Utf8Decode(Val(file.contents)) # ""
    THEN [file EXCEPT !.contents =
            Some(Utf8Encode(modifyXrefsInText(Utf8Decode(Val(file.contents)), list)))]
  ELSE file

\* a file loop that lets what a body throws leave the handler
CatchFileRethrows(r) == r

\* try { ... } catch (err) { console.error(...) } around the body of the
\* file loop: what the body throws is logged and goes no further
CatchFile(r) == [file |-> r.file, threw |-> FALSE]

\* the body of the file loop for one file.  fault: toString(), the rewriting
\* or Buffer.from throws; file.contents is assigned last, so the file is then
\* what it was
FileBody(file, list, fault) ==
  IF fault /\ ~SkipFile(file) THEN [file |-> file, threw |-> TRUE]
  ELSE [file |-> ProcessFile(file, list), threw |-> FALSE]

RECURSIVE FileLoop(_, _, _, _)
\* contentCatalog.findBy({ mediaType: "text/asciidoc" }).forEach(...) from
\* file i on; failingDocs: the positions of the files whose body throws
FileLoop(docs, i, list, failingDocs) ==
  IF i > Len(docs) THEN [files |-> docs, threw |-> FALSE]
  ELSE LET r == CatchFile(FileBody(docs[i], list, i \in failingDocs))
       IN IF r.threw THEN [files |-> [docs EXCEPT ![i] = r.file], threw |-> TRUE]
          ELSE FileLoop([docs EXCEPT ![i] = r.file], i + 1, list, failingDocs)

\* this.once("contentClassified", ...)
ContentClassified(catalog, failing, failingDocs) ==
  /\ pc = "configured"
  /\ catalogIn' = catalog
  /\ \E r \in {ComponentLoop(catalog.components,
                              [list |-> latestVersionsList, fs |-> fs], failing)} :
       /\ latestVersionsList' = r.list
       /\ fs' = r.fs
  /\ \E r \in {FileLoop(catalog.files, 1, latestVersionsList', failingDocs)} :
       /\ files' = r.files
       /\ pc' = IF r.threw THEN "thrown" ELSE "classified"
  /\ UNCHANGED <<outputDir, startPageVersion, startPageComponent, fsPub, linkIdx,
                 indexContent, calls, registrations>>

-----------------------------------------------------------------------------
(* sitePublished: the symlink loop, then the index.html step.              *)

\* the entry and the link name the loops stand at: entry k has the
\* positions 2k - 1 (latest) and 2k (dev)
LinkEntry(k) == latestVersionsList[(k + 1) \div 2]

LinkName(k) == IF k % 2 = 1 THEN LATEST_SYMLINK ELSE DEV_SYMLINK

LinkObj(k) == IF k % 2 = 1 THEN LinkEntry(k).latestStableObj ELSE LinkEntry(k).latestPrereleaseObj

\* const dirName = path.resolve(outputDir, componentName)
DirName(componentName) == resolve(Val(outputDir), componentName)

\* const symlinkPath = path.join(dirName, linkName)
SymlinkPath(componentName, linkName) == join(DirName(componentName), linkName)

\* const targetPath = path.relative(dirName, path.join(dirName, obj.version))
TargetPath(componentName, version) ==
  relative(DirName(componentName), join(DirName(componentName), version))

\* the body of the inner forEach for one link; fault: symlinkSync or
\* unlinkSync fails for a reason the disk does not show (EACCES, EIO)
LinkBody(d, componentName, linkName, obj, fault) ==
  IF ~IsSome(obj) THEN Ok(d)
  ELSE LET symlinkPath == SymlinkPath(componentName, linkName)
           targetPath  == TargetPath(componentName, Val(obj).version)
       IN IF isSafePath(Val(outputDir), symlinkPath)
            THEN IF fault THEN Threw(d) ELSE createSymlink(d, targetPath, symlinkPath)
          ELSE Ok(d)

\* this.once("sitePublished", ...): the handler is entered
SitePublishedBegin ==
  /\ pc = "classified"
  /\ pc' = "links"
  /\ linkIdx' = 1
  /\ fsPub' = fs
  /\ indexContent' = None
  /\ UNCHANGED <<outputDir, latestVersionsList, startPageVersion, startPageComponent,
                 catalogIn, files, fs, calls, registrations>>

\* a pass that lets what its body throws leave the handler
CatchLinkRethrows(r) == r

\* try { ... } catch (err) { console.error(...) } around the body of one
\* pass: what the body throws is logged and goes no further
CatchLink(r) == Ok(r.fs)

\* one pass of the inner forEach
SitePublishedLink ==
  /\ pc = "links"
  /\ linkIdx <= 2 * Len(latestVersionsList)
  /\ \E fault \in BOOLEAN :
       \E r \in {CatchLink(LinkBody(fs, LinkEntry(linkIdx).componentName, LinkName(linkIdx),
                                    LinkObj(linkIdx), fault))} :
         /\ fs' = r.fs
         /\ pc' = IF r.threw THEN "thrown" ELSE "links"
  /\ linkIdx' = linkIdx + 1
  /\ UNCHANGED <<outputDir, latestVersionsList, startPageVersion, startPageComponent,
                 catalogIn, files, fsPub, indexContent, calls, registrations>>

IndexPath == join(Val(outputDir), "index.html")

BackupPath == join(Val(outputDir), "index.html.bkp")

LatestPath == join(join(Val(outputDir), Val(startPageComponent)), "latest")

\* fs.existsSync(indexPath), then fs.readFileSync(indexPath, "utf8"); an
\* error of the read leaves the handler (nothing catches it)
SitePublishedIndexRead ==
  /\ pc = "links"
  /\ linkIdx > 2 * Len(latestVersionsList)
  /\ IF ~existsSync(fs, IndexPath)
       THEN pc' = "published" /\ UNCHANGED indexContent
     ELSE \E fault \in BOOLEAN :
            LET text == readFileSync(fs, IndexPath, fault)
            IN IF IsSome(text) THEN pc' = "binding" /\ indexContent' = text
               ELSE pc' = "thrown" /\ UNCHANGED indexContent
  /\ UNCHANGED <<outputDir, latestVersionsList, startPageVersion, startPageComponent,
                 catalogIn, files, fs, fsPub, linkIdx, calls, registrations>>

\* U+0008, the character "\b" denotes in the template literal the pattern is
\* built from.  TLA+ has no escape for it: the form feed stands for it.
BACKSPACE == "\f"

\* the characters "." of a regular expression does not match
LineTerminators == {"\n", "\r"}

\* whether the pattern text pat, read as a regular expression, matches at i:
\* of the characters a name can hold only "." is special
PatternAt(text, i, pat) ==
  /\ i + Len(pat) - 1 <= Len(text)
  /\ \A k \in 1..Len(pat) :
       IF Char(pat, k) = "." THEN Char(text, i + k - 1) \notin LineTerminators
       ELSE Char(text, i + k - 1) = Char(pat, k)

\* what may follow the version in versionPattern: (/|\b)
PatternTail(c) == c = "/" \/ c = BACKSPACE

\* whether versionPattern matches at position i of text
VersionPatternAt(text, i, component, version) ==
  /\ PatternAt(text, i, component)
  /\ Char(text, i + Len(component)) = "/"
  /\ PatternAt(text, i + Len(component) + 1, version)
  /\ PatternTail(Char(text, i + Len(component) + 1 + Len(version)))

RECURSIVE ReplaceVersionFrom(_, _, _, _)
\* indexContent.replace(versionPattern, "$1/latest$2") from position i on
ReplaceVersionFrom(text, i, component, version) ==
  IF i > Len(text) THEN ""
  ELSE IF VersionPatternAt(text, i, component, version)
    THEN LET n == Len(component) + 1 + Len(version) + 1
         IN SubSeq(text, i, i + Len(component) - 1) \o "/latest" \o Char(text, i + n - 1)
              \o ReplaceVersionFrom(text, i + n, component, version)
  ELSE Char(text, i) \o ReplaceVersionFrom(text, i + 1, component, version)

ReplaceVersion(text, component, version) == ReplaceVersionFrom(text, 1, component, version)

\* if (startPageComponent && startPageVersion) ... if (fs.existsSync(latestPath))
RewriteApplies(d) ==
  /\ IsSome(startPageComponent) /\ Val(startPageComponent) # ""
  /\ IsSome(startPageVersion) /\ Val(startPageVersion) # ""
  /\ existsSync(d, LatestPath)

\* the backup and the replacement in memory; an error of copyFileSync leaves
\* the handler
SitePublishedBinding ==
  /\ pc = "binding"
  /\ IF RewriteApplies(fs)
       THEN \E fault \in BOOLEAN :
              LET r == copyFileSync(fs, IndexPath, BackupPath, fault)
              IN IF r.threw THEN pc' = "thrown" /\ UNCHANGED <<fs, indexContent>>
                 ELSE /\ pc' = "write"
                      /\ fs' = r.fs
                      /\ indexContent' = Some(ReplaceVersion(Val(indexContent),
                                                Val(startPageComponent), Val(startPageVersion)))
     ELSE pc' = "write" /\ UNCHANGED <<fs, indexContent>>
  /\ UNCHANGED <<outputDir, latestVersionsList, startPageVersion, startPageComponent,
                 catalogIn, files, fsPub, linkIdx, calls, registrations>>

\* fs.writeFileSync(indexPath, indexContent, "utf8")
SitePublishedWrite ==
  /\ pc = "write"
  /\ \E fault \in BOOLEAN :
       LET r == writeFileSync(fs, IndexPath, Val(indexContent), fault)
       IN IF r.threw THEN pc' = "thrown" /\ UNCHANGED fs
          ELSE pc' = "published" /\ fs' = r.fs
  /\ UNCHANGED <<outputDir, latestVersionsList, startPageVersion, startPageComponent,
                 catalogIn, files, fsPub, linkIdx, indexContent, calls, registrations>>

-----------------------------------------------------------------------------
(* The disks the handlers may find.  A site lies under Cwd/build/site with *)
(* the component directory foo and its version directory 1.0.              *)

SiteRoot == "/w/build/site"

FooDir == "/w/build/site/foo"

FooLatest == "/w/build/site/foo/latest"

FooDev == "/w/build/site/foo/dev"

SharedDir == "/w/build/site/shared"

BaseDisk ==
  [p \in {"/w", "/w/build", SiteRoot, FooDir, "/w/build/site/foo/1.0",
          SharedDir, "/w/build/site/shared/9.9.9"} |-> Dir]

\* what may lie at foo/latest before a build
LinkStates == {"absent", "file", "link", "dangling", "dir"}

WithLatest(d, st) ==
  CASE st = "absent"   -> d
    [] st = "file"     -> Put(d, FooLatest, File("old"))
    [] st = "link"     -> Put(d, FooLatest, Link("1.0"))
    [] st = "dangling" -> Put(d, FooLatest, Link("0.9"))
    [] st = "dir"      -> Put(Put(d, FooLatest, Dir), FooLatest \o "/keep.html", File("kept"))

\* version directories that may or may not have been published
WithDirs(d, names) ==
  [p \in DOMAIN d \cup {FooDir \o "/" \o n : n \in names} |-> IF p \in DOMAIN d THEN d[p] ELSE Dir]

\* the paths at or below p
Below(d, p) == {x \in DOMAIN d : x = p \/ StartsWith(x, p \o "/")}

Subtree(d, p) == [x \in Below(d, p) |-> d[x]]

-----------------------------------------------------------------------------
(* What the host hands to the handlers.                                    *)

Version(label, prerelease) == [version |-> label, prerelease |-> prerelease]

Component(name, versions) == [name |-> name, versions |-> versions]

\* an asciidoc file of the catalog: file.component?.name, file.src.component,
\* file.src.basename, file.src.path and file.contents
Doc(component, srcComponent, basename, path, contents) ==
  [component |-> component, srcComponent |-> srcComponent, basename |-> basename,
   path |-> path, contents |-> contents]

\* a page of component foo with the given text
Page(text) ==
  Doc(None, Some("foo"), Some("a.adoc"), Some("modules/ROOT/pages/a.adoc"), Some(text))

Catalog(components, docs) == [components |-> components, files |-> docs]

\* playbook.output?.dir and playbook.site?.startPage
Playbook(dir, startPage) == [outputDir |-> dir, startPage |-> startPage]

\* sequences of at most n elements of S, no element twice
RECURSIVE DistinctSeqs(_, _)
DistinctSeqs(S, n) ==
  IF n = 0 THEN {<<>>}
  ELSE LET shorter == DistinctSeqs(S, n - 1)
       IN shorter \cup {Append(q, x) : q \in {r \in shorter : Len(r) = n - 1},
                                       x \in S}

Range(q) == {q[i] : i \in 1..Len(q)}

\* sequences of at most n elements of S
RECURSIVE SeqsUpTo(_, _)
SeqsUpTo(S, n) ==
  IF n = 0 THEN {<<>>}
  ELSE LET shorter == SeqsUpTo(S, n - 1)
       IN shorter \cup {Append(q, x) : q \in {r \in shorter : Len(r) = n - 1}, x \in S}

RECURSIVE Concat(_)
Concat(q) == IF q = <<>> THEN "" ELSE Head(q) \o Concat(Tail(q))

-----------------------------------------------------------------------------
(* SpecClassified: playbookBuilt with the default playbook, then           *)
(* contentClassified on a wide range of catalogs.                          *)

VersionLabels == {"1.0.0", "1.1.0-rc1", "0.9.0", "1.0", "main"}

PrereleaseValues == {"undefined", "true"}

\* the version lists of one component: every label at most once, in any order
VersionLists ==
  {q \in DistinctSeqs(VersionLabels \X PrereleaseValues, MaxVersions) :
     \A i, j \in 1..Len(q) : i # j => q[i][1] # q[j][1]}

VersionsOf(q) == [i \in 1..Len(q) |-> Version(q[i][1], q[i][2])]

\* the other components of the site
SharedComponent == Component("shared", <<Version("9.9.9", "undefined")>>)

BarComponent == Component("bar", <<Version("2.3.0", "undefined")>>)

ResolutionCatalogs ==
  {Catalog(<<SharedComponent, Component("foo", VersionsOf(q)), BarComponent>>, <<>>) :
     q \in VersionLists}

\* foo has both pointers (the stable label shorter than "latest", the
\* prerelease label longer than "dev"), bar only a stable one, zzz is unknown
FooComponent ==
  Component("foo", <<Version("1.1.0-rc1", "true"), Version("1.0", "undefined")>>)

SiteComponents == <<SharedComponent, FooComponent, BarComponent>>

RefKinds == {"xref:latest@foo:a", "xref:dev@foo:a", "xref:dev@bar:a",
             "xref:latest@zzz:a", "xref:1.0@foo:a"}

\* a reference with what follows it; the references to foo with either tail
RefTokens ==
  {k \o "[]" : k \in RefKinds} \cup {k \o "[t]\n" : k \in {"xref:latest@foo:a", "xref:dev@foo:a"}}

\* the texts of a document: references, each followed by its bracket
XrefTexts == {Concat(q) : q \in SeqsUpTo(RefTokens, MaxRefs)}

XrefCatalogs == {Catalog(SiteComponents, <<Page(t)>>) : t \in XrefTexts \ {""}}

\* documents of every kind the file loop tells apart
AnyDocs ==
  {Doc(c, sc, b, p, t) :
     c \in {None, Some("foo"), Some("shared")},
     sc \in {None, Some("foo"), Some("shared")},
     b \in {Some("nav.adoc"), Some("a.adoc")},
     p \in {None, Some(""), Some("modules/ROOT/pages/a.adoc")},
     t \in {None, Some(""), Some("xref:latest@foo:a[]")}}

DocCatalogs ==
  {Catalog(SiteComponents, <<d>>) : d \in AnyDocs}
    \cup {Catalog(SiteComponents, <<Doc(None, Some("shared"), Some("a.adoc"), Some("s.adoc"),
                                         Some("xref:dev@foo:a[]")),
                                     Page("xref:dev@foo:a[]")>>),
          Catalog(SiteComponents, <<Page("caf" \o INVALID_BYTE \o " xref:dev@foo:a[]")>>),
          Catalog(SiteComponents, <<Page("xref:latest@foo:a$$b[]")>>),
          Catalog(SiteComponents, <<Page("xref:latest@zzz:xref:dev@foo:a[] xref:dev@foo:a[]")>>)}

ClassifiedCatalogs == ResolutionCatalogs \cup XrefCatalogs \cup DocCatalogs

InitRegistered(disks) ==
  /\ pc = "registered"
  /\ fs \in disks
  /\ fsPub = BaseDisk
  /\ calls = <<>>
  /\ outputDir = None
  /\ latestVersionsList = <<>>
  /\ startPageVersion = None
  /\ startPageComponent = None
  /\ catalogIn = Catalog(<<>>, <<>>)
  /\ files = <<>>
  /\ linkIdx = 0
  /\ indexContent = None
  /\ registrations = 1

InitClassified == InitRegistered({BaseDisk})

NextClassified ==
  \/ PlaybookBuilt(Playbook(None, None))
  \/ \E c \in ClassifiedCatalogs : ContentClassified(c, {}, {})

SpecClassified == InitClassified /\ [][NextClassified]_vars

-----------------------------------------------------------------------------
(* SpecLink: createSymlink applied repeatedly to one disk.                 *)

LinkTargets == {"1.0", "2.0", "1.1.0-rc1"}

LinkPaths == {FooLatest, FooDev}

InitLink ==
  /\ pc = "createSymlink"
  /\ \E st \in LinkStates, extra \in SUBSET {"2.0"} :
       fs = WithDirs(WithLatest(BaseDisk, st), extra)
  /\ fsPub = fs
  /\ calls = <<>>
  /\ outputDir = None
  /\ latestVersionsList = <<>>
  /\ startPageVersion = None
  /\ startPageComponent = None
  /\ catalogIn = Catalog(<<>>, <<>>)
  /\ files = <<>>
  /\ linkIdx = 0
  /\ indexContent = None
  /\ registrations = 1

CreateSymlinkCall ==
  /\ pc = "createSymlink"
  /\ Len(calls) < MaxCalls
  /\ \E t \in LinkTargets, l \in LinkPaths :
       LET r == createSymlink(fs, t, l)
       IN /\ fs' = r.fs
          /\ calls' = Append(calls, [targetPath |-> t, symlinkPath |-> l,
                                     threw |-> r.threw, before |-> fs, after |-> r.fs])
  /\ UNCHANGED <<pc, outputDir, latestVersionsList, startPageVersion, startPageComponent,
                 catalogIn, files, fsPub, linkIdx, indexContent, registrations>>

NextLink == CreateSymlinkCall

SpecLink == InitLink /\ [][NextLink]_vars

-----------------------------------------------------------------------------
(* Spec: one registration, the three handlers in the order the host fires  *)
(* them, over the disks a build may leave.                                 *)

\* root index.html texts: the redirect page of the generator, a page with
\* the pinned path in other surroundings, and a page that is not UTF-8
IndexTexts ==
  {"<script>location=\"foo/1.0/index.html\"</script>",
   "<a href=\"foo/1.0\">foo</a> xfoo/1.0/ foo/1x0/ foo/1.0",
   "<p>caf" \o INVALID_BYTE \o "</p>"}

WithIndex(d, index) == IF IsSome(index) THEN Put(d, SiteRoot \o "/index.html", File(Val(index))) ELSE d

WithBackup(d, backup) ==
  IF IsSome(backup) THEN Put(d, SiteRoot \o "/index.html.bkp", File(Val(backup))) ELSE d

SiteDisks ==
  {WithBackup(WithIndex(WithDirs(WithLatest(BaseDisk, st), extra), index), backup) :
     st \in LinkStates,
     extra \in SUBSET {"1.1.0-rc1"},
     index \in {None} \cup {Some(t) : t \in IndexTexts},
     backup \in {None, Some("stale")}}

Playbooks ==
  {Playbook(None, startPage) :
     startPage \in {None, Some("1.0@foo:index.adoc"), Some("3.0@bar:index.adoc"),
                    Some("1.0@foo")}}
    \cup {Playbook(Some("/w/build/site"), Some("1.0@foo:index.adoc"))}

\* catalogs: the usual site; a component with prereleases only; component
\* names that lead out of the output directory or back into it; version
\* labels that do
SiteCatalogs ==
  {Catalog(<<SharedComponent, FooComponent>>, <<Page("xref:latest@foo:a[]")>>),
   Catalog(<<Component("foo", <<Version("1.1.0-rc1", "true")>>)>>, <<>>),
   Catalog(<<Component("../x", <<Version("1.0", "undefined")>>),
             Component("/etc", <<Version("1.0", "undefined")>>),
             FooComponent>>, <<>>),
   Catalog(<<Component("../site/foo", <<Version("1.0", "undefined")>>)>>, <<>>),
   Catalog(<<Component("foo", <<Version("../../1.0", "undefined"),
                                Version("/2.0", "true")>>)>>,
           <<Page("xref:latest@foo:a[]"), Page("xref:dev@foo:b[]")>>)}

Init == InitRegistered(SiteDisks)

Next ==
  \/ \E playbook \in Playbooks : PlaybookBuilt(playbook)
  \/ \E catalog \in SiteCatalogs, failing \in SUBSET {"foo"} :
       ContentClassified(catalog, failing, {})
  \/ SitePublishedBegin
  \/ SitePublishedLink
  \/ SitePublishedIndexRead
  \/ SitePublishedBinding
  \/ SitePublishedWrite

Spec == Init /\ [][Next]_vars

-----------------------------------------------------------------------------
(* SpecRerun: the generator run more than once in one process, on the disk *)
(* the run before left.                                                    *)

RerunDisks ==
  {WithIndex(WithLatest(BaseDisk, st), Some("<script>location=\"foo/1.0/index.html\"</script>")) :
     st \in {"absent", "link"}}

RerunPlaybooks == {Playbook(None, None), Playbook(None, Some("1.0@foo:index.adoc"))}

RerunCatalogs ==
  {Catalog(<<SharedComponent, FooComponent>>, <<Page("xref:latest@foo:a[]")>>),
   Catalog(<<Component("foo", <<Version("1.1.0-rc1", "true")>>), BarComponent>>, <<>>)}

InitRerun == InitRegistered(RerunDisks)

NextRerun ==
  \/ \E playbook \in RerunPlaybooks : PlaybookBuilt(playbook)
  \/ \E catalog \in RerunCatalogs : ContentClassified(catalog, {}, {})
  \/ SitePublishedBegin
  \/ SitePublishedLink
  \/ SitePublishedIndexRead
  \/ SitePublishedBinding
  \/ SitePublishedWrite
  \/ Register

SpecRerun == InitRerun /\ [][NextRerun]_vars

-----------------------------------------------------------------------------
(* SpecFaulty: contentClassified with components whose latest_dev.txt      *)
(* cannot be written and documents whose body throws.                      *)

BarDir == "/w/build/site/bar"

\* the usual disk, and one with a file where the directory of bar would be:
\* mkdirSync throws there
FaultyDisks == {BaseDisk, Put(BaseDisk, BarDir, File("in the way"))}

FaultyTexts == {"xref:latest@foo:a[]", "xref:latest@bar:a[]", "plain"}

FaultyCatalogs ==
  {Catalog(components, <<Page(t1), Page(t2)>>) :
     components \in {<<SharedComponent, FooComponent, BarComponent>>,
                     <<BarComponent, SharedComponent, FooComponent>>},
     t1 \in FaultyTexts, t2 \in FaultyTexts}

InitFaulty == InitRegistered(FaultyDisks)

NextFaulty ==
  \/ PlaybookBuilt(Playbook(None, None))
  \/ \E catalog \in FaultyCatalogs, failing \in SUBSET {"foo", "bar"}, failingDocs \in SUBSET {1, 2} :
       ContentClassified(catalog, failing, failingDocs)

SpecFaulty == InitFaulty /\ [][NextFaulty]_vars

-----------------------------------------------------------------------------
(* Properties.                                                             *)

\* whether the handler sitePublished has been entered
InPublished == pc \in {"links", "binding", "write", "published", "thrown"}

\* the components of a catalog the component loop resolves, in order
RECURSIVE NonShared(_)
NonShared(components) ==
  IF components = <<>> THEN <<>>
  ELSE IF Head(components).name = "shared" THEN NonShared(Tail(components))
  ELSE <<Head(components)>> \o NonShared(Tail(components))

\* the entry the last contentClassified run pushed for the k-th of them
PushedEntry(k) ==
  latestVersionsList[Len(latestVersionsList) - Len(NonShared(catalogIn.components)) + k]

\* a >= b for two coerced versions
RankGE(a, b) ==
  \/ a[1] > b[1]
  \/ a[1] = b[1] /\ a[2] > b[2]
  \/ a[1] = b[1] /\ a[2] = b[2] /\ a[3] >= b[3]

\* the positions of the version entries of c that parse and whose prerelease
\* tag is absent (tagged = FALSE) or present (tagged = TRUE)
ClassOf(c, tagged) ==
  {i \in 1..Len(c.versions) :
     /\ IsSome(coerce(c.versions[i].version))
     /\ (c.versions[i].prerelease # "undefined") = tagged}

\* obj is a pointer allowed for the class: absent exactly when the
\* class is empty, else an entry of the class of the highest rank
PointerOk(c, obj, tagged) ==
  IF ClassOf(c, tagged) = {} THEN obj = None
  ELSE /\ IsSome(obj)
       /\ \E i \in ClassOf(c, tagged) :
            /\ Val(obj).version = c.versions[i].version
            /\ Val(obj).prerelease = c.versions[i].prerelease
            /\ \A j \in ClassOf(c, tagged) :
                 RankGE(Val(coerce(c.versions[i].version)), Val(coerce(c.versions[j].version)))

ExampleVersions ==
  <<Version("1.0.0", "undefined"), Version("1.1.0-rc1", "true"), Version("0.9.0", "undefined")>>

\* C1: after contentClassified, for every non-shared component the stable
\* pointer is a parseable entry without prerelease tag of the highest rank
\* among those, the prerelease pointer a parseable entry with a tag of the
\* highest rank among those, and each is absent exactly when its class is
\* empty; [1.0.0, 1.1.0-rc1 (prerelease), 0.9.0] gives 1.0.0 and 1.1.0-rc1.
C1_PointersAreTheLatest ==
  pc = "classified" =>
    \A k \in 1..Len(NonShared(catalogIn.components)) :
      LET c == NonShared(catalogIn.components)[k]
          e == PushedEntry(k)
      IN /\ e.componentName = c.name
         /\ PointerOk(c, e.latestStableObj, FALSE)
         /\ PointerOk(c, e.latestPrereleaseObj, TRUE)
         /\ c.versions = ExampleVersions =>
              /\ Val(e.latestStableObj).version = "1.0.0"
              /\ Val(e.latestPrereleaseObj).version = "1.1.0-rc1"

\* the example list has been resolved
C1_Witness ==
  /\ pc = "classified"
  /\ \E k \in 1..Len(NonShared(catalogIn.components)) :
       /\ NonShared(catalogIn.components)[k].versions = ExampleVersions
       /\ PushedEntry(k).latestStableObj # None
       /\ Val(PushedEntry(k).latestStableObj).version = "1.0.0"

\* the documents the file loop handed to modifyXrefsInText
Rewritten ==
  {i \in 1..Len(files) :
     /\ IsSome(catalogIn.files[i].path) /\ Val(catalogIn.files[i].path) # ""
     /\ catalogIn.files[i].basename # Some("nav.adoc")
     /\ catalogIn.files[i].component # Some("shared")
     /\ (catalogIn.files[i].component = None => catalogIn.files[i].srcComponent # Some("shared"))
     /\ IsSome(catalogIn.files[i].contents) /\ Val(catalogIn.files[i].contents) # ""}

\* C2: the text modifyXrefsInText returns holds no xref:latest@C: for a
\* component C with a stable pointer and no xref:dev@C: for a component C
\* with a prerelease pointer, however many references the text holds and
\* however close together they are.
C2_EveryReferenceRewritten ==
  pc = "classified" =>
    \A i \in Rewritten, k \in 1..Len(latestVersionsList) :
      LET e == latestVersionsList[k]
      IN /\ IsSome(e.latestStableObj) =>
              ~Includes(Val(files[i].contents), "xref:latest@" \o e.componentName \o ":")
         /\ IsSome(e.latestPrereleaseObj) =>
              ~Includes(Val(files[i].contents), "xref:dev@" \o e.componentName \o ":")

\* whether the expression matches at position p of text with a pointer that
\* the table resolves (resolved = TRUE) or does not resolve (resolved = FALSE)
PointerAt(text, p, resolved) ==
  /\ IsSome(XrefMatchAt(text, p))
  /\ IsSome(ActualVersion(latestVersionsList, Val(XrefMatchAt(text, p)).versionType,
                          Val(XrefMatchAt(text, p)).targetComponent)) = resolved

\* C9: every reference whose pointer the table does not resolve is in the
\* returned text as it was, and the resolvable references after it are
\* rewritten all the same.
C9_UnresolvedLeftResolvableRewritten ==
  pc = "classified" =>
    \A i \in Rewritten :
      LET before == Val(catalogIn.files[i].contents)
          after  == Val(files[i].contents)
      IN /\ \A p \in 1..Len(before) :
              PointerAt(before, p, FALSE) =>
                Includes(after, Val(XrefMatchAt(before, p)).full \o "[")
         /\ \A p \in 1..Len(after), q \in 1..Len(after) :
              (p < q /\ PointerAt(after, p, FALSE)) => ~PointerAt(after, q, TRUE)

\* C10: contentClassified leaves file.contents as it was for a document of
\* the shared component, one named nav.adoc, one without source path and one
\* without text, whatever references it holds.
C10_SkippedDocumentsKept ==
  pc = "classified" =>
    \A i \in 1..Len(files) :
      LET f == catalogIn.files[i]
          owner == IF IsSome(f.component) THEN f.component ELSE f.srcComponent
      IN (\/ owner = Some("shared")
          \/ f.basename = Some("nav.adoc")
          \/ f.path = None \/ f.path = Some("")
          \/ f.contents = None \/ f.contents = Some(""))
         => files[i] = f

\* a document of the shared component with a resolvable reference was passed over
C10_Witness ==
  /\ pc = "classified"
  /\ \E i \in 1..Len(files) :
       /\ catalogIn.files[i].srcComponent = Some("shared")
       /\ catalogIn.files[i].component = None
       /\ catalogIn.files[i].basename = Some("a.adoc")
       /\ IsSome(catalogIn.files[i].path) /\ Val(catalogIn.files[i].path) # ""
       /\ IsSome(catalogIn.files[i].contents)
       /\ Includes(Val(catalogIn.files[i].contents), "xref:latest@foo:")
       /\ CompEntry(latestVersionsList, "foo") # None
       /\ files[i] = catalogIn.files[i]

\* the absolute location of the output directory
OutputRoot == Abs(Val(outputDir))

\* whether the absolute path p is root or lies below it
Inside(root, p) == p = root \/ StartsWith(p, root \o "/")

\* the link paths of the entries the symlink loop has passed
PassedLinkPaths ==
  {Abs(SymlinkPath(LinkEntry(k).componentName, LinkName(k))) :
     k \in {j \in 1..(2 * Len(latestVersionsList)) : j < linkIdx /\ IsSome(LinkObj(j))}}

\* C3: sitePublished creates a symlink only at a path inside the output
\* directory, and where the link path of an entry lies outside it nothing is
\* created or removed: every path outside is as the handler found it.
C3_NoLinkOutsideRoot ==
  InPublished =>
    \A root \in {OutputRoot} :
      /\ \A p \in DOMAIN fs :
           (fs[p].kind = "link" /\ Lstat(fsPub, p) # Some(fs[p])) => Inside(root, p)
      /\ \A p \in DOMAIN fs \cup DOMAIN fsPub :
           ~Inside(root, p) => Lstat(fs, p) = Lstat(fsPub, p)
      /\ pc \in {"published", "thrown"} =>
           \A p \in PassedLinkPaths : ~Inside(root, p) => Lstat(fs, p) = Lstat(fsPub, p)

\* the loop has passed an entry whose link path lies outside the output
\* directory, and made a link inside it
C3_Witness ==
  /\ pc = "published"
  /\ \E p \in PassedLinkPaths : ~Inside(OutputRoot, p)
  /\ \E p \in PassedLinkPaths :
       Inside(OutputRoot, p) /\ IsSome(Lstat(fs, p)) /\ Val(Lstat(fs, p)).kind = "link"
                     /\ Lstat(fsPub, p) # Lstat(fs, p)

\* C4: a directory at a link path stays the directory it was, with all that
\* lies below it, however often createSymlink is called on it.
C4_DirectoryKept ==
  pc = "createSymlink" =>
    \A l \in LinkPaths :
      Lstat(fsPub, l) = Some(Dir) => Subtree(fs, l) = Subtree(fsPub, l)

\* createSymlink was called more than once on a path that holds a directory
C4_Witness ==
  /\ pc = "createSymlink"
  /\ Lstat(fsPub, FooLatest) = Some(Dir)
  /\ Len(calls) >= 2
  /\ \A i \in 1..Len(calls) : calls[i].symlinkPath = FooLatest /\ ~calls[i].threw

\* C5: a second call of createSymlink with the same (targetPath, symlinkPath)
\* raises no error and leaves the disk as the first call left it.
C5_SecondCallChangesNothing ==
  pc = "createSymlink" =>
    \A i \in 1..(Len(calls) - 1) :
      (calls[i].targetPath = calls[i + 1].targetPath
         /\ calls[i].symlinkPath = calls[i + 1].symlinkPath)
      => (~calls[i + 1].threw /\ calls[i + 1].after = calls[i].after)

\* the root index.html and its backup, on a disk
IndexNode(d) == Lstat(d, IndexPath)

BackupNode(d) == Lstat(d, BackupPath)

\* C6: when sitePublished ends and no binding was captured or nothing lies
\* at <component>/latest, index.html is what it was and no backup was made.
C6_EntryPageLeftAlone ==
  (pc \in {"published", "thrown"}
     /\ (startPageComponent = None \/ startPageVersion = None \/ Lstat(fs, LatestPath) = None))
  => (IndexNode(fs) = IndexNode(fsPub) /\ BackupNode(fs) = BackupNode(fsPub))

\* whether the path segment component/version stands at position i of text:
\* the two names as they are written, with no name character before or after
SegmentAt(text, i, component, version) ==
  /\ StartsAt(text, i, component \o "/" \o version)
  /\ ~IsNameChar(Char(text, i - 1))
  /\ ~IsNameChar(Char(text, i + Len(component) + 1 + Len(version)))

RECURSIVE SegmentsReplacedFrom(_, _, _, _)
\* text from position i on with every such segment replaced by component/latest
SegmentsReplacedFrom(text, i, component, version) ==
  IF i > Len(text) THEN ""
  ELSE IF SegmentAt(text, i, component, version)
    THEN component \o "/latest"
           \o SegmentsReplacedFrom(text, i + Len(component) + 1 + Len(version), component, version)
  ELSE Char(text, i) \o SegmentsReplacedFrom(text, i + 1, component, version)

\* C7: when the binding (V, C) is present and C/latest exists, the index.html
\* sitePublished leaves is the original with every path segment C/V replaced
\* by C/latest, whatever follows it, and nothing else changed.
C7_EntryPageRewrittenExactly ==
  (pc = "published" /\ IsSome(IndexNode(fsPub)) /\ RewriteApplies(fs))
  => IndexNode(fs) = Some(File(SegmentsReplacedFrom(Val(IndexNode(fsPub)).data, 1,
                                   Val(startPageComponent), Val(startPageVersion))))

\* C8: when index.html is written with a text that differs from the one the
\* handler found, index.html.bkp is there already and holds the text found.
C8_BackupBeforeWrite ==
  InPublished =>
    /\ (pc = "write" /\ Some(File(Val(indexContent))) # IndexNode(fsPub))
         => BackupNode(fs) = IndexNode(fsPub)
    /\ (IsSome(IndexNode(fsPub)) /\ IndexNode(fs) # IndexNode(fsPub))
         => BackupNode(fs) = IndexNode(fsPub)

\* C11: in every state the table has no entry for the component shared, and
\* the output directory of shared holds what it held before the build: no
\* latest_dev.txt, no latest and no dev link.
C11_SharedNeverResolved ==
  /\ \A i \in 1..Len(latestVersionsList) : latestVersionsList[i].componentName # "shared"
  /\ Subtree(fs, SharedDir) = Subtree(BaseDisk, SharedDir)

\* a build whose catalog holds shared with a version that parses has ended
\* with the links of another component made
C11_Witness ==
  /\ pc = "published"
  /\ \E i \in 1..Len(catalogIn.components) :
       /\ catalogIn.components[i].name = "shared"
       /\ ClassOf(catalogIn.components[i], FALSE) # {}
  /\ Lstat(fs, FooLatest) = Some(Link("1.0"))
  /\ Lstat(fs, SharedDir \o "/9.9.9") = Some(Dir)

\* the lines of a descriptor: the name, then one line per pointer there is
DescriptorLines(name, stable, prerelease) ==
  <<name>> \o (IF IsSome(stable) THEN <<"latest: " \o Val(stable).version>> ELSE <<>>)
           \o (IF IsSome(prerelease) THEN <<"dev: " \o Val(prerelease).version>> ELSE <<>>)

\* a text of the given lines, each ended by a line feed
Lines(seq) == Concat([i \in 1..Len(seq) |-> seq[i] \o "\n"])

\* C12: after contentClassified, latest_dev.txt in the output directory of
\* every non-shared component holds the component name on line 1, then a line
\* "latest: <v>" exactly when there is a stable pointer (v its label as the
\* catalog gives it), then a line "dev: <v>" exactly when there is a
\* prerelease pointer, and nothing else.
C12_DescriptorContent ==
  pc = "classified" =>
    \A k \in 1..Len(NonShared(catalogIn.components)) :
      LET c == NonShared(catalogIn.components)[k]
          e == PushedEntry(k)
      IN /\ \A obj \in {e.latestStableObj, e.latestPrereleaseObj} :
              IsSome(obj) => \E i \in 1..Len(c.versions) : c.versions[i].version = Val(obj).version
         /\ Lstat(fs, SiteRoot \o "/" \o c.name \o "/" \o "latest_dev.txt")
              = Some(File(Lines(DescriptorLines(c.name, e.latestStableObj, e.latestPrereleaseObj))))

\* the descriptor of a component with a prerelease pointer only has been written
C12_Witness ==
  /\ pc = "classified"
  /\ \E k \in 1..Len(NonShared(catalogIn.components)) :
       /\ NonShared(catalogIn.components)[k].name = "foo"
       /\ PushedEntry(k).latestStableObj = None
       /\ IsSome(PushedEntry(k).latestPrereleaseObj)
       /\ Lstat(fs, FooDir \o "/latest_dev.txt")
            = Some(File("foo\ndev: " \o Val(PushedEntry(k).latestPrereleaseObj).version \o "\n"))

\* C13: the table changes only in the step of contentClassified, and in
\* every state, also when register was called more than once in the process,
\* it holds at most one entry per component name.
C13_TableWriteOnce ==
  /\ [](\A i, j \in 1..Len(latestVersionsList) :
          i # j => latestVersionsList[i].componentName # latestVersionsList[j].componentName)
  /\ [][latestVersionsList' # latestVersionsList => (pc = "configured" /\ pc' = "classified")]_vars

\* the steps from one position of the host to the next
PhaseSteps ==
  {<<"registered", "configured">>, <<"configured", "classified">>, <<"classified", "links">>,
   <<"links", "binding">>, <<"links", "published">>, <<"links", "thrown">>,
   <<"binding", "write">>, <<"binding", "thrown">>,
   <<"write", "published">>, <<"write", "thrown">>,
   <<"published", "registered">>, <<"thrown", "registered">>}

\* the symbolic links of a disk
LinksOf(d) == {<<p, d[p].data>> : p \in {q \in DOMAIN d : d[q].kind = "link"}}

\* C14: per registration the handlers run once each in the order
\* playbookBuilt, contentClassified, sitePublished; no step before
\* sitePublished creates or removes a symlink or touches index.html; within
\* sitePublished every link of every entry has had its turn before
\* index.html is looked at, and index.html is written at most once.
C14_PhaseOrder ==
  [][/\ pc' # pc => <<pc, pc'>> \in PhaseSteps
     /\ pc \in {"registered", "configured", "published", "thrown"} =>
          /\ LinksOf(fs') = LinksOf(fs)
          /\ Lstat(fs', SiteRoot \o "/index.html") = Lstat(fs, SiteRoot \o "/index.html")
     /\ LinksOf(fs') # LinksOf(fs) => (pc = "links" /\ pc' = "links")
     /\ (pc = "links" /\ pc' # "links") => linkIdx > 2 * Len(latestVersionsList)
     /\ Lstat(fs', SiteRoot \o "/index.html") # Lstat(fs, SiteRoot \o "/index.html")
          => (pc = "write" /\ pc' = "published")
    ]_vars

\* a second build has made its links and rewritten the entry page
C14_Witness ==
  /\ registrations = 2
  /\ pc = "published"
  /\ Lstat(fs, FooLatest) = Some(Link("1.0"))
  /\ Lstat(fs, FooLatest) # Lstat(fsPub, FooLatest)
  /\ IndexNode(fs) # IndexNode(fsPub)

\* the links sitePublished has made or changed so far: path and target text
LinksMade ==
  {l \in LinksOf(fs) : Lstat(fsPub, l[1]) # Some(Link(l[2]))}

\* C15: the target of every link sitePublished makes is a relative path that
\* does not start with "..": the link resolves to a place inside the
\* directory of its component, whatever the version label.
C15_TargetStaysInside ==
  InPublished =>
    \A l \in LinksMade :
      /\ ~isAbsolute(l[2])
      /\ ~StartsWith(l[2], "..")
      /\ Inside(dirname(l[1]), join(dirname(l[1]), l[2]))

\* C16: where the link path holds a plain file or a symlink, its target
\* there or gone, createSymlink leaves a symlink to the target it was given
\* and nothing of the old entry.
C16_StaleEntryReplaced ==
  pc = "createSymlink" =>
    \A i \in 1..Len(calls) :
      LET old == Lstat(calls[i].before, calls[i].symlinkPath)
      IN (IsSome(old) /\ Val(old).kind \in {"file", "link"}) =>
           /\ ~calls[i].threw
           /\ Lstat(calls[i].after, calls[i].symlinkPath) = Some(Link(calls[i].targetPath))

\* C17: whenever sitePublished creates a latest or dev symlink, the version
\* directory it points at is on disk at that moment.
C17_TargetExistsBeforeLink ==
  [][\A l \in LinksOf(fs') \ LinksOf(fs) :
       Stat(fs, join(dirname(l[1]), l[2])) = Some(Dir)]_vars

RECURSIVE InPlaceOutcomes(_, _, _)
\* the texts that come of text from position from + 1 on when each match of
\* the expression, taken from left to right, is either kept or, where the
\* table resolves it, has the version label put in place of the pointer name
InPlaceOutcomes(text, from, fuel) ==
  LET match == XrefExec(text, from)
  IN IF ~IsSome(match) \/ fuel = 0 THEN {SubSeq(text, from + 1, Len(text))}
     ELSE LET m == Val(match)
              v == ActualVersion(latestVersionsList, m.versionType, m.targetComponent)
              forms == {m.full} \cup
                       (IF IsSome(v)
                          THEN {"xref:" \o Val(v) \o "@" \o m.targetComponent \o ":" \o m.targetFile}
                        ELSE {})
          IN {SubSeq(text, from + 1, m.index) \o f \o rest :
                f \in forms, rest \in InPlaceOutcomes(text, m.lastIndex, fuel - 1)}

\* C18: the text modifyXrefsInText returns differs from the one it was given
\* only in resolved references, each with the version label in place of the
\* pointer name at the position of the match and the component name and the
\* remainder as they were; a text without pointer-style reference is
\* returned as it was.
C18_OnlyMatchesChanged ==
  pc = "classified" =>
    \A i \in Rewritten :
      \A before \in {Utf8Decode(Val(catalogIn.files[i].contents))} :
        /\ Utf8Decode(Val(files[i].contents)) \in InPlaceOutcomes(before, 0, LoopFuel)
        /\ XrefExec(before, 0) = None => Utf8Decode(Val(files[i].contents)) = before

RECURSIVE Rankable(_)
\* the version entries whose label parses, in their order
Rankable(versions) ==
  IF versions = <<>> THEN <<>>
  ELSE IF IsSome(coerce(Head(versions).version))
    THEN <<Head(versions)>> \o Rankable(Tail(versions))
  ELSE Rankable(Tail(versions))

\* C19: a label that does not parse is never a pointer, the pointers are
\* those the component would have without such labels, and every non-shared
\* component of the catalog, also one after a component with such a label,
\* has its entry.
C19_UnrankableDropped ==
  pc = "classified" =>
    /\ Len(latestVersionsList) = Len(NonShared(catalogIn.components))
    /\ \A k \in 1..Len(NonShared(catalogIn.components)) :
         \A c \in {NonShared(catalogIn.components)[k]} :
           /\ \A obj \in {PushedEntry(k).latestStableObj, PushedEntry(k).latestPrereleaseObj} :
                IsSome(obj) => IsSome(coerce(Val(obj).version))
           /\ PushedEntry(k) = ResolveComponent(Component(c.name, Rankable(c.versions)))
           /\ c = BarComponent => PushedEntry(k).latestStableObj # None

\* a component with a label that does not parse and labels that do has been
\* resolved, and the component after it as well
C19_Witness ==
  /\ pc = "classified"
  /\ \E k \in 1..(Len(NonShared(catalogIn.components)) - 1) :
       /\ \E i \in 1..Len(NonShared(catalogIn.components)[k].versions) :
            NonShared(catalogIn.components)[k].versions[i].version = "main"
       /\ Len(Rankable(NonShared(catalogIn.components)[k].versions)) >= 2
       /\ IsSome(PushedEntry(k).latestStableObj)
       /\ PushedEntry(k + 1).componentName = "bar"
       /\ IsSome(PushedEntry(k + 1).latestStableObj)

\* C20: a pointer link that cannot be made (an error of the file system, a
\* link path outside the output directory, a directory or a stale link in
\* the way) ends its own pass only: whenever the handler is past the link
\* loop, every pass of the loop has been taken, both links of every entry of
\* the table, and what the handler throws to the host it throws from the
\* entry-page step
C20_LinkFailureIsolated ==
  pc \in {"binding", "write", "published", "thrown"} =>
    linkIdx = 2 * Len(latestVersionsList) + 1

\* the pass for foo/latest threw (a stale link in the way, left as it was),
\* the pass for foo/dev made its link, and the entry page was then written
C20_Witness ==
  /\ pc = "published"
  /\ Len(latestVersionsList) >= 1
  /\ \E k \in 1..Len(latestVersionsList) :
       /\ latestVersionsList[k].componentName = "foo"
       /\ IsSome(latestVersionsList[k].latestStableObj)
       /\ IsSome(latestVersionsList[k].latestPrereleaseObj)
  /\ FooLatest \in DOMAIN fsPub /\ fsPub[FooLatest] = Link("0.9")
  /\ FooLatest \in DOMAIN fs /\ fs[FooLatest] = Link("0.9")
  /\ FooDev \notin DOMAIN fsPub
  /\ FooDev \in DOMAIN fs /\ fs[FooDev].kind = "link"
  /\ existsSync(fs, IndexPath)
  /\ IsSome(indexContent)

\* what the rewriting makes of a text of FaultyTexts
FaultyRewritten(t) ==
  CASE t = "xref:latest@foo:a[]" -> "xref:1.0@foo:a[]"
    [] t = "xref:latest@bar:a[]" -> "xref:2.3.0@bar:a[]"
    [] OTHER -> t

DescriptorOf(name) == Lstat(fs, SiteRoot \o "/" \o name \o "/" \o "latest_dev.txt")

\* C21: a component whose descriptor file cannot be written and a document
\* whose body throws end their own pass only.  contentClassified never throws
\* to the host; after it the table holds one entry for every non-shared
\* component of the catalog, in order, whichever descriptors failed; every
\* descriptor is either missing (its write failed) or complete; and every
\* document is either what it was (its body threw, or it held nothing to
\* rewrite) or rewritten in full.
C21_FailureIsolated ==
  /\ pc # "thrown"
  /\ pc = "classified" =>
       /\ Len(latestVersionsList) = Len(NonShared(catalogIn.components))
       /\ \A k \in 1..Len(latestVersionsList) :
            LET c == NonShared(catalogIn.components)[k]
                e == latestVersionsList[k]
            IN /\ e.componentName = c.name
               /\ IsSome(e.latestStableObj)
               /\ DescriptorOf(c.name) \in
                    {None, Some(File(Lines(DescriptorLines(c.name, e.latestStableObj,
                                                           e.latestPrereleaseObj))))}
       /\ Len(files) = Len(catalogIn.files)
       /\ \A i \in 1..Len(files) :
            \/ files[i] = catalogIn.files[i]
            \/ files[i] = Page(FaultyRewritten(Val(catalogIn.files[i].contents)))

\* bar comes first and its descriptor could not be written, the descriptor
\* of foo after it was; the first document threw (its reference to foo can
\* be resolved and is still there), the second was rewritten
C21_Witness ==
  /\ pc = "classified"
  /\ catalogIn.components[1].name = "bar"
  /\ DescriptorOf("bar") = None
  /\ DescriptorOf("foo") = Some(File("foo\nlatest: 1.0\ndev: 1.1.0-rc1\n"))
  /\ Len(files) = 2
  /\ files[1] = Page("xref:latest@foo:a[]")
  /\ catalogIn.files[2] = Page("xref:latest@bar:a[]")
  /\ files[2] = Page("xref:2.3.0@bar:a[]")

\* C22: a failure of the entry-page step (index.html cannot be read, copied
\* to index.html.bkp or written back) is caught inside sitePublished: the
\* handler never ends by throwing to the host
C22_EntryPageFailureCaught == pc # "thrown"

\* the pointer of entry e that the link name stands for
PointerOf(e, linkName) ==
  IF linkName = LATEST_SYMLINK THEN e.latestStableObj ELSE e.latestPrereleaseObj

\* the link for this pointer was made in this run: its path is inside the
\* output directory, nothing lay there when the site had been published, and
\* a link is there now; and the descriptor file of the component was written
ConsumersPresent(e, linkName) ==
  /\ IsSome(PointerOf(e, linkName))
  /\ isSafePath(Val(outputDir), SymlinkPath(e.componentName, linkName))
  /\ Lstat(fsPub, SymlinkPath(e.componentName, linkName)) = None
  /\ IsSome(Lstat(fs, SymlinkPath(e.componentName, linkName)))
  /\ Val(Lstat(fs, SymlinkPath(e.componentName, linkName))).kind = "link"
  /\ IsSome(Lstat(fs, join(DirName(e.componentName), "latest_dev.txt")))
  /\ Val(Lstat(fs, join(DirName(e.componentName), "latest_dev.txt"))).kind = "file"

\* C23: after a complete run, for every entry of the table and each of its
\* pointers whose link was made in this run, the version label on the
\* "latest:" ("dev:") line of the descriptor file, the target of the latest
\* (dev) link and the version put in place of xref:latest@C: (xref:dev@C:) in
\* the rewritten documents are one and the same string
C23_ConsumersAgree ==
  pc = "published" =>
    \A k \in 1..Len(latestVersionsList), linkName \in {LATEST_SYMLINK, DEV_SYMLINK} :
      LET e == latestVersionsList[k]
      IN ConsumersPresent(e, linkName) =>
           \A label \in {Val(PointerOf(e, linkName)).version} :
             /\ Lstat(fs, SymlinkPath(e.componentName, linkName)) = Some(Link(label))
             /\ Includes(Val(Lstat(fs, join(DirName(e.componentName), "latest_dev.txt"))).data,
                         "\n" \o linkName \o ": " \o label \o "\n")
             /\ \A i \in Rewritten :
                  Includes(Val(catalogIn.files[i].contents),
                           "xref:" \o linkName \o "@" \o e.componentName \o ":")
                    => Includes(Val(files[i].contents),
                                "xref:" \o label \o "@" \o e.componentName \o ":")

====
